---- MODULE Spec2Model ----
(***************************************************************************)
(* Model of src/App.tsx: the sales / inventory reconciliation run          *)
(* (processData) and the upload / run life cycle of the App component.     *)
(*                                                                         *)
(* Numbers.  The program computes with JavaScript numbers.  The model      *)
(* computes with exact rationals <<n, d>> (d > 0, lowest terms); NaN, which *)
(* parseFloat returns for a cell that does not start with a number, is     *)
(* <<0, 0>>.  The rounding of IEEE-754 doubles is not represented.         *)
(*                                                                         *)
(* Text.  The Persian column names of the source are written as ASCII      *)
(* tokens; each definition names the literal it stands for.                *)
(***************************************************************************)
EXTENDS Integers, Sequences, FiniteSets, TLC

VARIABLES files, targetSales, targetTax, loading, result, uploadedCount,
          downloadUrl, run, nextUrl, merged, redistributed, finalData

vars == <<files, targetSales, targetTax, loading, result, uploadedCount,
          downloadUrl, run, nextUrl, merged, redistributed, finalData>>

(***************************************************************************)
(* Exact rational arithmetic standing for JavaScript number arithmetic.    *)
(***************************************************************************)
Abs(n) == IF n < 0 THEN -n ELSE n

RECURSIVE Gcd(_, _)
Gcd(a, b) == IF b = 0 THEN a ELSE Gcd(b, a % b)

Norm(n, d) ==
    LET g == Gcd(Abs(n), Abs(d))
        s == IF d < 0 THEN -1 ELSE 1
    IN  <<(s * n) \div g, (s * d) \div g>>

R(n) == <<n, 1>>
Zero == <<0, 1>>
One == <<1, 1>>
NaN == <<0, 0>>

RAdd(a, b) == Norm(a[1] * b[2] + b[1] * a[2], a[2] * b[2])
RSub(a, b) == Norm(a[1] * b[2] - b[1] * a[2], a[2] * b[2])
RMul(a, b) == Norm(a[1] * b[1], a[2] * b[2])
RDiv(a, b) == Norm(a[1] * b[2], a[2] * b[1])
RLt(a, b) == a[1] * b[2] < b[1] * a[2]
RLe(a, b) == a[1] * b[2] <= b[1] * a[2]
RAbs(a) == <<Abs(a[1]), a[2]>>
RMin(a, b) == IF RLt(b, a) THEN b ELSE a
RMax(a, b) == IF RLt(a, b) THEN b ELSE a
\* Math.floor
RFloor(a) == <<a[1] \div a[2], 1>>

\* x || 0 and x || 1 on a number: 0 and NaN are falsy
OrZero(x) == IF x = NaN \/ x = Zero THEN Zero ELSE x
OrOne(x) == IF x = NaN \/ x = Zero THEN One ELSE x

RECURSIVE RSum(_)
RSum(s) == IF s = <<>> THEN Zero ELSE RAdd(s[1], RSum(Tail(s)))

(***************************************************************************)
(* Cells and columns.                                                      *)
(***************************************************************************)
\* row[col] of a column the row does not have
Undefined == "<undefined>"

\* 'kod kala', 'tedad vahed joz', 'darsad maliat', 'forush', 'jam maliat satr'
COL_S_CODE == "code"
COL_S_QTY == "unit qty"
COL_S_TAX_PCT == "tax pct"
COL_S_TOTAL == "sales"
COL_S_TAX_AMT == "row tax"
\* the other two quantity headers getQtyCol accepts: 'tedad', 'mande tedadi'
COL_QTY2 == "qty"
COL_QTY3 == "balance qty"

\* parseFloat: the longest numeric prefix after leading blanks, else NaN
ParseFloat(s) ==
    CASE s = "0" -> R(0)
      [] s = "1" -> R(1)
      [] s = "2" -> R(2)
      [] s = "3" -> R(3)
      [] s = "4" -> R(4)
      [] s = "5" -> R(5)
      [] s = "9" -> R(9)
      [] s = "-1" -> R(-1)
      [] s = "-2" -> R(-2)
      [] s = "0.5" -> <<1, 2>>
      [] s = "1.5" -> <<3, 2>>
      [] s = " 2" -> R(2)
      [] s = "3kg" -> R(3)
      [] OTHER -> NaN

\* String.prototype.trim on the header texts of the model
Trim(h) ==
    CASE h = " qty " -> "qty"
      [] h = " unit qty" -> "unit qty"
      [] OTHER -> h

Cell(row, col) == IF col \in DOMAIN row THEN row[col] ELSE Undefined

\* String(v || '')
KeyText(v) == IF v = Undefined THEN "" ELSE v

\* parseFloat(v) || 0
NumOrZero(v) == OrZero(ParseFloat(v))

(***************************************************************************)
(* Map<string, number> and Set<string>, in insertion order.                *)
(***************************************************************************)
RECURSIVE MapHas(_, _)
MapHas(m, k) ==
    IF m = <<>> THEN FALSE
    ELSE IF m[1].key = k THEN TRUE ELSE MapHas(Tail(m), k)

RECURSIVE MapGet(_, _)
MapGet(m, k) ==
    IF m = <<>> THEN NaN
    ELSE IF m[1].key = k THEN m[1].val ELSE MapGet(Tail(m), k)

MapSet(m, k, v) ==
    IF MapHas(m, k)
    THEN [i \in 1..Len(m) |-> IF m[i].key = k THEN [key |-> k, val |-> v] ELSE m[i]]
    ELSE Append(m, [key |-> k, val |-> v])

MapKeys(m) == [i \in 1..Len(m) |-> m[i].key]

SeqHas(s, x) == \E i \in 1..Len(s) : s[i] = x

\* new Set([...]): first occurrences, in order
RECURSIVE Unique(_, _)
Unique(s, acc) ==
    IF s = <<>> THEN acc
    ELSE Unique(Tail(s), IF SeqHas(acc, s[1]) THEN acc ELSE Append(acc, s[1]))

(***************************************************************************)
(* groupBySum and getQtyCol.                                               *)
(***************************************************************************)
RECURSIVE groupBySumFrom(_, _, _, _)
groupBySumFrom(data, groupCol, sumCol, acc) ==
    IF data = <<>> THEN acc
    ELSE LET row == data[1]
             key == KeyText(Cell(row, groupCol))
             val == NumOrZero(Cell(row, sumCol))
         IN  groupBySumFrom(Tail(data), groupCol, sumCol,
                 IF key # ""
                 THEN MapSet(acc, key, RAdd(OrZero(MapGet(acc, key)), val))
                 ELSE acc)

groupBySum(data, groupCol, sumCol) == groupBySumFrom(data, groupCol, sumCol, <<>>)

possible == <<COL_S_QTY, COL_QTY2, COL_QTY3>>

\* df.headers.find(h => h.trim() === p): the first such header, or Undefined
FindHeader(headers, p) ==
    IF \E i \in 1..Len(headers) : Trim(headers[i]) = p
    THEN headers[CHOOSE i \in 1..Len(headers) :
                    /\ Trim(headers[i]) = p
                    /\ \A j \in 1..(i - 1) : Trim(headers[j]) # p]
    ELSE Undefined

RECURSIVE getQtyColFrom(_, _)
getQtyColFrom(df, ps) ==
    IF ps = <<>>
    THEN IF Len(df.headers) >= 2 THEN df.headers[2] ELSE Undefined
    ELSE IF FindHeader(df.headers, ps[1]) # Undefined
         THEN FindHeader(df.headers, ps[1])
         ELSE getQtyColFrom(df, Tail(ps))

getQtyCol(df) == getQtyColFrom(df, possible)

(***************************************************************************)
(* processData, lines 105-182: inventory, sales aggregation, merge.        *)
(***************************************************************************)
\* dfSales.data.map(r => r[COL_S_CODE]).filter(Boolean)
RECURSIVE SalesCodes(_)
SalesCodes(data) ==
    IF data = <<>> THEN <<>>
    ELSE LET c == Cell(data[1], COL_S_CODE)
         IN  IF c = Undefined \/ c = "" THEN SalesCodes(Tail(data))
             ELSE <<c>> \o SalesCodes(Tail(data))

\* faulty variant: the codes of the sales ledger are left out of the union
allCodes_NoSales(openSum, purchSum, retSum, dfSales) ==
    Unique(MapKeys(openSum) \o MapKeys(purchSum) \o MapKeys(retSum), <<>>)

allCodes(openSum, purchSum, retSum, dfSales) ==
    Unique(MapKeys(openSum) \o MapKeys(purchSum) \o MapKeys(retSum)
               \o SalesCodes(dfSales.data), <<>>)

inventory(code, openSum, purchSum, retSum) ==
    LET q_open == OrZero(MapGet(openSum, code))
        q_purch == OrZero(MapGet(purchSum, code))
        q_ret == OrZero(MapGet(retSum, code))
    IN  [code |-> code, q_open |-> q_open, q_purch |-> q_purch, q_ret |-> q_ret,
         available |-> RSub(RAdd(q_open, q_purch), q_ret)]

NoSales == [qty |-> Zero, total |-> Zero, tax |-> Zero, tax_pct |-> Zero]

\* salesAgg: code -> {qty, total, tax, tax_pct}; tax_pct is that of the
\* code's first row, which is also what taxMap holds
RECURSIVE salesAggFrom(_, _)
salesAggFrom(data, acc) ==
    IF data = <<>> THEN acc
    ELSE LET row == data[1]
             code == KeyText(Cell(row, COL_S_CODE))
             qty == NumOrZero(Cell(row, COL_S_QTY))
             total == NumOrZero(Cell(row, COL_S_TOTAL))
             tax == NumOrZero(Cell(row, COL_S_TAX_AMT))
             taxPct == NumOrZero(Cell(row, COL_S_TAX_PCT))
             old == IF MapHas(acc, code) THEN MapGet(acc, code)
                    ELSE [qty |-> Zero, total |-> Zero, tax |-> Zero, tax_pct |-> taxPct]
         IN  IF code = "" THEN salesAggFrom(Tail(data), acc)
             ELSE salesAggFrom(Tail(data),
                      MapSet(acc, code,
                             [qty |-> RAdd(old.qty, qty),
                              total |-> RAdd(old.total, total),
                              tax |-> RAdd(old.tax, tax),
                              tax_pct |-> old.tax_pct]))

salesAgg(dfSales) == salesAggFrom(dfSales.data, <<>>)

\* one finalData row
MergeRow(code, openSum, purchSum, retSum, agg) ==
    LET inv == inventory(code, openSum, purchSum, retSum)
        sales == IF MapHas(agg, code) THEN MapGet(agg, code) ELSE NoSales
    IN  [code |-> code,
         q_open |-> inv.q_open, q_purch |-> inv.q_purch, q_ret |-> inv.q_ret,
         available |-> inv.available,
         qty |-> sales.qty, total |-> sales.total, tax |-> sales.tax,
         tax_pct |-> IF MapHas(agg, code) THEN MapGet(agg, code).tax_pct ELSE Zero,
         ending |-> RSub(inv.available, sales.qty)]

\* finalData after the merge (line 182)
MergeLedgers(dfOpen, dfPurch, dfRet, dfSales) ==
    LET openSum == groupBySum(dfOpen.data, COL_S_CODE, getQtyCol(dfOpen))
        purchSum == groupBySum(dfPurch.data, COL_S_CODE, getQtyCol(dfPurch))
        retSum == groupBySum(dfRet.data, COL_S_CODE, getQtyCol(dfRet))
        codes == allCodes(openSum, purchSum, retSum, dfSales)
        agg == salesAgg(dfSales)
    IN  [i \in 1..Len(codes) |-> MergeRow(codes[i], openSum, purchSum, retSum, agg)]

(***************************************************************************)
(* processData, lines 184-227: redistribution per tax group.               *)
(***************************************************************************)
\* Array.prototype.filter: the indices i >= from, ascending, where keep[i]
RECURSIVE FilterIdx(_, _)
FilterIdx(keep, from) ==
    IF from > Len(keep) THEN <<>>
    ELSE (IF keep[from] THEN <<from>> ELSE <<>>) \o FilterIdx(keep, from + 1)

taxGroups(fd) == Unique([i \in 1..Len(fd) |-> fd[i].tax_pct], <<>>)

IsNeg(r) == RLt(r.ending, Zero)
IsPos(r) == RLt(Zero, r.ending) /\ RLt(Zero, r.total)

\* faulty variant: the recipients are taken from every tax group
posItems_AnyBracket(fd, taxGrp) ==
    FilterIdx([i \in 1..Len(fd) |-> IsPos(fd[i])], 1)

negItems(fd, taxGrp) ==
    FilterIdx([i \in 1..Len(fd) |-> fd[i].tax_pct = taxGrp /\ IsNeg(fd[i])], 1)
posItems(fd, taxGrp) ==
    FilterIdx([i \in 1..Len(fd) |-> fd[i].tax_pct = taxGrp /\ IsPos(fd[i])], 1)

\* faulty variant: the ratio is not capped at 1.0
deficitRatio_NoCap(item) == RDiv(RAbs(item.ending), OrOne(item.qty))

\* faulty variant: the divisor is Math.max(quantity, 1)
deficitRatio_MaxGuard(item) == RMin(One, RDiv(RAbs(item.ending), RMax(item.qty, One)))

\* Math.min(1.0, Math.abs(item.ending) / (item[COL_S_QTY] || 1))
deficitRatio(item) == RMin(One, RDiv(RAbs(item.ending), OrOne(item.qty)))

\* the donor loop (lines 201-215): subtract each donor's share
RECURSIVE DonorLoop(_, _, _)
DonorLoop(fd, snap, neg) ==
    IF neg = <<>> THEN fd
    ELSE LET item == snap[neg[1]]
             ratio == deficitRatio(item)
             cur == fd[neg[1]]
         IN  DonorLoop([fd EXCEPT ![neg[1]] =
                            [cur EXCEPT !.qty = RSub(cur.qty, RMul(item.qty, ratio)),
                                        !.total = RSub(cur.total, RMul(item.total, ratio)),
                                        !.tax = RSub(cur.tax, RMul(item.tax, ratio))]],
                       snap, Tail(neg))

\* totalMoveQty, totalMoveSales, totalMoveTax
totalMove(snap, neg) ==
    LET ratio == [k \in 1..Len(neg) |-> deficitRatio(snap[neg[k]])]
    IN  [qty |-> RSum([k \in 1..Len(neg) |-> RMul(snap[neg[k]].qty, ratio[k])]),
         total |-> RSum([k \in 1..Len(neg) |-> RMul(snap[neg[k]].total, ratio[k])]),
         tax |-> RSum([k \in 1..Len(neg) |-> RMul(snap[neg[k]].tax, ratio[k])])]

\* faulty variant: the weights are taken against the sales of every row
totalPosSales_AllRows(snap, pos) == RSum([i \in 1..Len(snap) |-> snap[i].total])

totalPosSales(snap, pos) == RSum([k \in 1..Len(pos) |-> snap[pos[k]].total])

weight(item, totPos) == RDiv(item.total, totPos)

\* the recipient loop (lines 220-225)
RECURSIVE RecipientLoop(_, _, _, _, _)
RecipientLoop(fd, snap, pos, mv, totPos) ==
    IF pos = <<>> THEN fd
    ELSE LET w == weight(snap[pos[1]], totPos)
             cur == fd[pos[1]]
         IN  RecipientLoop([fd EXCEPT ![pos[1]] =
                                [cur EXCEPT !.qty = RAdd(cur.qty, RMul(w, mv.qty)),
                                            !.total = RAdd(cur.total, RMul(w, mv.total)),
                                            !.tax = RAdd(cur.tax, RMul(w, mv.tax))]],
                           snap, Tail(pos), mv, totPos)

\* one iteration of taxGroups.forEach
RedistributeGroup(fd, taxGrp) ==
    LET neg == negItems(fd, taxGrp)
        pos == posItems(fd, taxGrp)
    IN  IF Len(neg) > 0 /\ Len(pos) > 0
        THEN RecipientLoop(DonorLoop(fd, fd, neg), fd, pos,
                           totalMove(fd, neg), totalPosSales(fd, pos))
        ELSE fd

RECURSIVE RedistributeFrom(_, _)
RedistributeFrom(fd, groups) ==
    IF groups = <<>> THEN fd
    ELSE RedistributeFrom(RedistributeGroup(fd, groups[1]), Tail(groups))

\* finalData after line 227
Redistribute(fd) == RedistributeFrom(fd, taxGroups(fd))

(***************************************************************************)
(* processData, lines 229-269: final targeting and the final balance.      *)
(***************************************************************************)
\* reduce((maxIdx, r, i, arr) => r[f] > arr[maxIdx][f] ? i : maxIdx, 0):
\* the first index holding the largest value (1-based here)
RECURSIVE MaxIdxFrom(_, _, _)
MaxIdxFrom(v, i, maxIdx) ==
    IF i > Len(v) THEN maxIdx
    ELSE MaxIdxFrom(v, i + 1, IF RLt(v[maxIdx], v[i]) THEN i ELSE maxIdx)

MaxIdx(v) == MaxIdxFrom(v, 1, 1)

totalSales(fd) == RSum([i \in 1..Len(fd) |-> fd[i].total])

salesRatio(fd, tSales) ==
    LET tot == totalSales(fd)
    IN  IF RLt(Zero, tot) THEN RDiv(R(tSales), tot) ELSE One

\* Math.floor(r[COL_S_TOTAL] * salesRatio) of every row
flooredSales(fd, tSales) ==
    LET ratio == salesRatio(fd, tSales)
    IN  [i \in 1..Len(fd) |-> RFloor(RMul(fd[i].total, ratio))]

\* faulty variant: the remainder of the flooring is dropped
salesDiff_Dropped(fl, tSales) == Zero

\* targetSales - currentTotalSales, over the floored amounts fl
salesDiff(fl, tSales) == RSub(R(tSales), RSum(fl))

\* the row that takes salesDiff
salesMaxIdx(fl) == MaxIdx(fl)

\* the sales pass (lines 229-243): every row gets salesFinal
SalesTargeting(fd, tSales) ==
    LET fl == flooredSales(fd, tSales)
        diff == salesDiff(fl, tSales)
        maxIdx == salesMaxIdx(fl)
    IN  [i \in 1..Len(fd) |->
            fd[i] @@ [salesFinal |->
                         IF diff # Zero /\ i = maxIdx THEN RAdd(fl[i], diff) ELSE fl[i]]]

\* finalData[maxIdx] of an empty finalData is undefined: line 242 throws
SalesTargetingThrows(fd, tSales) ==
    Len(fd) = 0 /\ salesDiff(flooredSales(fd, tSales), tSales) # Zero

IsTaxable(r) == RLt(Zero, r.tax_pct)

taxableItems(fd) == FilterIdx([i \in 1..Len(fd) |-> IsTaxable(fd[i])], 1)

totalTax(fd) ==
    LET items == taxableItems(fd)
    IN  RSum([k \in 1..Len(items) |-> fd[items[k]].tax])

taxRatio(fd, tTax) ==
    LET tot == totalTax(fd)
    IN  IF RLt(Zero, tot) THEN RDiv(R(tTax), tot) ELSE One

flooredTax(fd, tTax) ==
    LET ratio == taxRatio(fd, tTax)
    IN  [i \in 1..Len(fd) |->
            IF IsTaxable(fd[i]) THEN RFloor(RMul(fd[i].tax, ratio)) ELSE Zero]

\* targetTax - currentTotalTax, over the floored taxes fl
taxDiff(fl, tTax) == RSub(R(tTax), RSum(fl))

\* the row that takes taxDiff: the reduce runs over all of finalData
maxTaxIdx(fl) == MaxIdx(fl)

\* the tax pass (lines 245-264): every row gets taxFinal
TaxTargeting(fd, tTax) ==
    LET fl == flooredTax(fd, tTax)
        diff == taxDiff(fl, tTax)
        maxIdx == maxTaxIdx(fl)
    IN  [i \in 1..Len(fd) |->
            fd[i] @@ [taxFinal |->
                         IF diff # Zero /\ Len(taxableItems(fd)) > 0 /\ i = maxIdx
                         THEN RAdd(fl[i], diff) ELSE fl[i]]]

\* lines 267-269
FinalEnding(fd) ==
    [i \in 1..Len(fd) |-> fd[i] @@ [endingFinal |-> RSub(fd[i].available, fd[i].qty)]]

\* lines 271-280
reportData(fd) ==
    [i \in 1..Len(fd) |->
        [code |-> fd[i].code, q_open |-> fd[i].q_open, q_purch |-> fd[i].q_purch,
         q_ret |-> fd[i].q_ret, qty |-> fd[i].qty, salesFinal |-> fd[i].salesFinal,
         taxFinal |-> fd[i].taxFinal, endingFinal |-> fd[i].endingFinal]]

(***************************************************************************)
(* State of the App component and of one processData call.                 *)
(***************************************************************************)
FileTypes == {"open", "purch", "ret", "sales"}

\* files[type] of a ledger that was not uploaded
NoFile == [name |-> "", headers |-> <<>>, data |-> <<>>]
NoFiles == [t \in FileTypes |-> NoFile]

\* result === null, downloadUrl === null
Null == <<>>
NoUrl == 0

MsgMissing == "upload all 4 files"
MsgReady == "Excel file is ready"
MsgSystem == "system error"

\* no processData call is in progress or has ended
NoRun == [pc |-> "none", files |-> NoFiles, targetSales |-> 0, targetTax |-> 0,
          parsed |-> {}, outcome |-> "", url |-> NoUrl]

\* the largest number of object URLs created in one behaviour
MaxRuns == 2

TypeOK ==
    /\ DOMAIN files = FileTypes
    /\ loading \in BOOLEAN
    /\ uploadedCount \in 0..4
    /\ downloadUrl \in 0..MaxRuns
    /\ nextUrl \in 1..(MaxRuns + 1)
    /\ Len(result) <= 1
    /\ run.pc \in {"none", "parsing", "done"}

(***************************************************************************)
(* Handlers.                                                               *)
(***************************************************************************)
\* handleFileUpload(type), lines 32-41
HandleFileUpload(type, file) ==
    /\ files' = [files EXCEPT ![type] = file]
    /\ uploadedCount' = IF files[type] = NoFile THEN uploadedCount + 1 ELSE uploadedCount
    /\ UNCHANGED <<targetSales, targetTax, loading, result, downloadUrl, run, nextUrl,
                   merged, redistributed, finalData>>

\* onChange of the two target inputs, lines 387 and 399
SetTargetSales(v) ==
    /\ targetSales' = v
    /\ UNCHANGED <<files, targetTax, loading, result, uploadedCount, downloadUrl, run,
                   nextUrl, merged, redistributed, finalData>>

SetTargetTax(v) ==
    /\ targetTax' = v
    /\ UNCHANGED <<files, targetSales, loading, result, uploadedCount, downloadUrl, run,
                   nextUrl, merged, redistributed, finalData>>

AllUploaded(fs) == \A t \in FileTypes : fs[t] # NoFile

\* processData, lines 71-74: a ledger is missing.  The run button is
\* disabled while a run is loading (line 409), so calls do not overlap.
ProcessDataMissing ==
    /\ ~loading
    /\ ~AllUploaded(files)
    /\ result' = <<[success |-> FALSE, message |-> MsgMissing]>>
    /\ run' = [NoRun EXCEPT !.pc = "done", !.outcome = "failure"]
    /\ merged' = <<>>
    /\ redistributed' = <<>>
    /\ finalData' = <<>>
    /\ UNCHANGED <<files, targetSales, targetTax, loading, uploadedCount, downloadUrl,
                   nextUrl>>

\* processData, lines 76-86: up to the await of the four parses; the call
\* keeps the files and targets it was started with.  MaxRuns caps the
\* number of download URLs a behaviour creates.
ProcessDataStart ==
    /\ ~loading
    /\ AllUploaded(files)
    /\ nextUrl <= MaxRuns
    /\ loading' = TRUE
    /\ result' = Null
    /\ run' = [NoRun EXCEPT !.pc = "parsing", !.files = files,
                            !.targetSales = targetSales, !.targetTax = targetTax]
    /\ merged' = <<>>
    /\ redistributed' = <<>>
    /\ finalData' = <<>>
    /\ UNCHANGED <<files, targetSales, targetTax, uploadedCount, downloadUrl, nextUrl>>

\* finalData of the run at line 182, and at line 269 from that of line 227
RunMerged(r) == MergeLedgers(r.files["open"], r.files["purch"], r.files["ret"],
                             r.files["sales"])
RunFinal(r, rd) ==
    FinalEnding(TaxTargeting(SalesTargeting(rd, r.targetSales), r.targetTax))

\* the parses a resumed await has seen resolve (Promise.all)
ParsedAtResume == FileTypes

\* processData, lines 88-304 and 310: all four parses resolved, no exception
ProcessDataResume ==
    /\ run.pc = "parsing"
    /\ LET m == RunMerged(run)
           rd == Redistribute(m)
       IN  /\ ~SalesTargetingThrows(rd, run.targetSales)
           /\ merged' = m
           /\ redistributed' = rd
           /\ finalData' = RunFinal(run, rd)
    /\ downloadUrl' = nextUrl
    /\ nextUrl' = nextUrl + 1
    /\ result' = <<[success |-> TRUE, message |-> MsgReady]>>
    /\ loading' = FALSE
    /\ run' = [run EXCEPT !.pc = "done", !.outcome = "success", !.url = nextUrl,
                          !.parsed = ParsedAtResume, !.files = NoFiles]
    /\ UNCHANGED <<files, targetSales, targetTax, uploadedCount>>

\* faulty variant: the finally block is missing, loading stays set
Failed_NoFinally(parsed) ==
    /\ result' = <<[success |-> FALSE, message |-> MsgSystem]>>
    /\ run' = [run EXCEPT !.pc = "done", !.outcome = "failure", !.parsed = parsed,
                          !.files = NoFiles]
    /\ UNCHANGED <<files, targetSales, targetTax, loading, uploadedCount, downloadUrl,
                   nextUrl, merged, redistributed, finalData>>

\* the state the catch and finally blocks leave (lines 306-311)
Failed(parsed) ==
    /\ result' = <<[success |-> FALSE, message |-> MsgSystem]>>
    /\ loading' = FALSE
    /\ run' = [run EXCEPT !.pc = "done", !.outcome = "failure", !.parsed = parsed,
                          !.files = NoFiles]
    /\ UNCHANGED <<files, targetSales, targetTax, uploadedCount, downloadUrl, nextUrl,
                   merged, redistributed, finalData>>

\* processData, lines 242 and 306-311: the sales pass throws on an empty finalData
ProcessDataThrow ==
    /\ run.pc = "parsing"
    /\ SalesTargetingThrows(Redistribute(RunMerged(run)), run.targetSales)
    /\ Failed(FileTypes)

\* processData, lines 81-86 and 306-311: the parse of ledger t rejects
ProcessDataReject(t) ==
    /\ run.pc = "parsing"
    /\ t \in FileTypes
    /\ Failed({})

(***************************************************************************)
(* Ledgers the runs are given.                                             *)
(***************************************************************************)
File(name, headers, data) == [name |-> name, headers |-> headers, data |-> data]

InvRow(code, qty) == (COL_S_CODE :> code) @@ (COL_S_QTY :> qty)

SalesRow(code, qty, pct, total, tax) ==
    (COL_S_CODE :> code) @@ (COL_S_QTY :> qty) @@ (COL_S_TAX_PCT :> pct)
        @@ (COL_S_TOTAL :> total) @@ (COL_S_TAX_AMT :> tax)

InvHeaders == <<COL_S_CODE, COL_S_QTY>>
SalesHeaders == <<COL_S_CODE, COL_S_QTY, COL_S_TAX_PCT, COL_S_TOTAL, COL_S_TAX_AMT>>

\* a row and a header list without column c
Without(row, c) == [h \in (DOMAIN row) \ {c} |-> row[h]]
HeadersWithout(hs, c) == SelectSeq(hs, LAMBDA h : h # c)

\* the files a user picks in the upload cards
UploadFiles(type) ==
    CASE type = "open" ->
            {File("open.csv", InvHeaders, <<InvRow("A", "2")>>),
             File("open0.csv", InvHeaders, <<>>)}
      [] type = "purch" ->
            {File("purch.csv", <<COL_S_CODE, COL_QTY2>>,
                  <<(COL_S_CODE :> "B") @@ (COL_QTY2 :> "1")>>),
             File("purch0.csv", InvHeaders, <<>>)}
      [] type = "ret" ->
            {File("ret.csv", InvHeaders, <<InvRow("A", "1")>>),
             File("ret0.csv", InvHeaders, <<>>)}
      [] type = "sales" ->
            {File("sales.csv", SalesHeaders, <<SalesRow("A", "1", "9", "2", "1")>>),
             File("sales0.csv", SalesHeaders, <<>>)}

\* the values typed into the two target inputs
UploadTargets == {0, 1}

(***************************************************************************)
(* Spec: uploads, target edits and runs of the App component.              *)
(***************************************************************************)
InitApp ==
    /\ files = NoFiles
    /\ loading = FALSE
    /\ result = Null
    /\ uploadedCount = 0
    /\ downloadUrl = NoUrl
    /\ run = NoRun
    /\ nextUrl = 1
    /\ merged = <<>>
    /\ redistributed = <<>>
    /\ finalData = <<>>

\* the default targets of lines 24-25 (720343738661, 30574390776) are beyond
\* TLC's integers: the initial targets are drawn from the model's values
Init ==
    /\ InitApp
    /\ targetSales \in UploadTargets
    /\ targetTax \in UploadTargets

Next ==
    \/ \E type \in FileTypes : \E file \in UploadFiles(type) : HandleFileUpload(type, file)
    \/ \E v \in UploadTargets : SetTargetSales(v)
    \/ \E v \in UploadTargets : SetTargetTax(v)
    \/ ProcessDataMissing
    \/ ProcessDataStart
    \/ ProcessDataResume
    \/ ProcessDataThrow
    \/ \E t \in FileTypes : ProcessDataReject(t)

Spec == Init /\ [][Next]_vars

(***************************************************************************)
(* SpecLedgers: runs over ledgers of differing shape (columns present or   *)
(* absent, codes spread over the ledgers, cells that are not numbers).     *)
(***************************************************************************)
LedgerFiles(type) ==
    CASE type = "open" ->
            {File("open1", InvHeaders,
                  <<InvRow("A", "2"), InvRow("", "5"), InvRow("A", "abc"),
                    InvRow("B", "1.5")>>),
             \* a single column
             File("open2", <<COL_S_CODE>>, <<(COL_S_CODE :> "B"), (COL_S_CODE :> "D")>>),
             \* no column at all
             File("open3", <<>>, <<>>)}
      [] type = "purch" ->
            {\* no known quantity header: the second column is taken
             File("purch1", <<COL_S_CODE, "x">>,
                  <<(COL_S_CODE :> "B") @@ ("x" :> "3"),
                    (COL_S_CODE :> "C") @@ ("x" :> " 2")>>),
             \* a padded quantity header behind another column
             File("purch2", <<COL_S_CODE, "desc", " qty ">>,
                  <<(COL_S_CODE :> "A") @@ ("desc" :> "3kg") @@ (" qty " :> "1")>>),
             File("purch3", InvHeaders, <<>>)}
      [] type = "ret" ->
            {File("ret1", InvHeaders, <<InvRow("A", "1")>>),
             File("ret2", InvHeaders, <<InvRow("E", "1"), InvRow("A", "0")>>),
             File("ret3", <<COL_S_CODE>>, <<>>)}
      [] type = "sales" ->
            {File("sales1", SalesHeaders,
                  <<SalesRow("A", "2", "9", "2", "1"), SalesRow("C", "1", "0", "1", "0"),
                    SalesRow("A", "abc", "0", "1", "1"), SalesRow("", "1", "9", "5", "1")>>),
             File("sales2", HeadersWithout(SalesHeaders, COL_S_TOTAL),
                  <<Without(SalesRow("A", "1", "9", "2", "1"), COL_S_TOTAL),
                    Without(SalesRow("F", "1", "9", "2", "1"), COL_S_TOTAL)>>),
             File("sales3", HeadersWithout(SalesHeaders, COL_S_CODE),
                  <<Without(SalesRow("A", "1", "9", "2", "1"), COL_S_CODE)>>),
             File("sales4", HeadersWithout(SalesHeaders, COL_S_QTY),
                  <<Without(SalesRow("F", "1", "9", "2", "1"), COL_S_QTY)>>),
             File("sales5", SalesHeaders, <<>>)}

LedgerTargets == {0, 2}

\* the state of the component once four ledgers are uploaded, before a run
InitUploaded(fs, tSales, tTax) ==
    /\ files = fs
    /\ targetSales = tSales
    /\ targetTax = tTax
    /\ loading = FALSE
    /\ result = Null
    /\ uploadedCount = 4
    /\ downloadUrl = NoUrl
    /\ run = NoRun
    /\ nextUrl = MaxRuns
    /\ merged = <<>>
    /\ redistributed = <<>>
    /\ finalData = <<>>

InitLedgers ==
    \E o \in LedgerFiles("open"), p \in LedgerFiles("purch"), r \in LedgerFiles("ret"),
       s \in LedgerFiles("sales"), tSales \in LedgerTargets, tTax \in LedgerTargets :
        InitUploaded([t \in FileTypes |->
                         CASE t = "open" -> o [] t = "purch" -> p
                           [] t = "ret" -> r [] t = "sales" -> s],
                     tSales, tTax)

NextLedgers ==
    \/ ProcessDataStart
    \/ ProcessDataResume
    \/ ProcessDataThrow
    \/ \E t \in FileTypes : ProcessDataReject(t)

SpecLedgers == InitLedgers /\ [][NextLedgers]_vars

(***************************************************************************)
(* Ledgers built from one line per product: what is available (opening    *)
(* stock, or a return without stock when negative) and the product's one   *)
(* sales row.  Products keep their order in every ledger.                  *)
(***************************************************************************)
Products == <<"A", "B", "C", "D", "E", "F">>

\* the text of a small whole number, as a ledger cell holds it
NumText(n) ==
    CASE n = 0 -> "0" [] n = 1 -> "1" [] n = 2 -> "2" [] n = 3 -> "3"
      [] n = 4 -> "4" [] n = 5 -> "5"

Line(avail, qty, total, tax, pct) ==
    [avail |-> avail, qty |-> qty, total |-> total, tax |-> tax, pct |-> pct]

LinesFiles(lines) ==
    [t \in FileTypes |->
        CASE t = "open" ->
                File("open", InvHeaders,
                     [i \in 1..Len(lines) |->
                         InvRow(Products[i],
                                NumText(IF lines[i].avail > 0 THEN lines[i].avail ELSE 0))])
          [] t = "purch" -> File("purch", InvHeaders, <<>>)
          [] t = "ret" ->
                File("ret", InvHeaders,
                     [i \in 1..Len(lines) |->
                         InvRow(Products[i],
                                NumText(IF lines[i].avail < 0 THEN -lines[i].avail ELSE 0))])
          [] t = "sales" ->
                File("sales", SalesHeaders,
                     [i \in 1..Len(lines) |->
                         SalesRow(Products[i], lines[i].qty, lines[i].pct,
                                  lines[i].total, lines[i].tax)])]

NextRun ==
    \/ ProcessDataStart
    \/ ProcessDataResume

(***************************************************************************)
(* SpecRedist: runs over three products whose stock, sold quantity, sales  *)
(* amount and tax vary; the third product may sit in another tax group.    *)
(***************************************************************************)
MaxAvail == 2
QtyTexts == {"-1", "0", "0.5", "1", "2"}

RedistLines ==
    {<<a, b, c>> :
        a \in {Line(v, q, s, x, "9") :
                  v \in (-2)..MaxAvail, q \in QtyTexts, s \in {"0", "2"}, x \in {"0", "1"}},
        b \in {Line(v, q, s, "1", "9") :
                  v \in (-1)..MaxAvail, q \in {"0", "0.5", "1"}, s \in {"0", "1", "2"}},
        c \in {Line(v, "0", "2", "1", p) : v \in {0, MaxAvail}, p \in {"9", "0"}}}

InitRedist == \E lines \in RedistLines : InitUploaded(LinesFiles(lines), 2, 1)

SpecRedist == InitRedist /\ [][NextRun]_vars

(***************************************************************************)
(* SpecFrame: runs over six products in three tax groups.  The first three *)
(* are as in SpecRedist, with a third that may also have sold nothing; the *)
(* fourth and fifth share the zero-rate group, where one may be short and  *)
(* the other in stock without sales; the sixth is alone in its group, in   *)
(* stock and sold.                                                         *)
(***************************************************************************)
FrameLines ==
    {<<a, b, c, d, e, f>> :
        a \in {Line(v, q, "2", "1", "9") : v \in (-2)..MaxAvail, q \in {"0", "1", "2"}},
        b \in {Line(v, "1", s, "1", "9") : v \in 0..MaxAvail, s \in {"0", "2"}},
        c \in {Line(v, "0", s, "1", p) :
                  v \in {0, MaxAvail}, s \in {"0", "2"}, p \in {"9", "0"}},
        d \in {Line(v, "1", "1", "1", "0") : v \in {0, MaxAvail}},
        e \in {Line(v, "1", s, "0", "0") : v \in {0, MaxAvail}, s \in {"0", "2"}},
        f \in {Line(MaxAvail, "1", "1", "1", "5")}}

InitFrame == \E lines \in FrameLines : InitUploaded(LinesFiles(lines), 2, 1)

SpecFrame == InitFrame /\ [][NextRun]_vars

(***************************************************************************)
(* SpecBalance: runs whose sales amounts and sales target vary (the sales  *)
(* pass), and runs whose tax amounts, tax rates and tax target vary (the   *)
(* tax pass).                                                              *)
(***************************************************************************)
MaxTarget == 4
TargetValues == (-1)..MaxTarget

SalesPassLines ==
    {<<a, b, c>> :
        a \in {Line(v, "1", s, "1", "9") : v \in {0, 2}, s \in {"0", "1", "2", "3"}},
        b \in {Line(v, "1", s, "1", "9") : v \in {0, 2}, s \in {"0", "1", "2", "3"}},
        c \in {Line(v, "1", s, "1", p) :
                  v \in {0, 2}, s \in {"0", "1", "2", "3"}, p \in {"0", "9"}}}

TaxPassLines ==
    {<<a, b, c>> :
        a \in {Line(2, "1", "1", x, p) : x \in {"0", "1", "2"}, p \in {"0", "9"}},
        b \in {Line(2, "1", "1", x, p) : x \in {"0", "1", "2"}, p \in {"0", "9"}},
        c \in {Line(v, "1", "1", x, p) :
                  v \in {0, 2}, x \in {"0", "1", "2"}, p \in {"0", "9"}}}

InitBalance ==
    \/ \E lines \in SalesPassLines, t \in TargetValues :
           InitUploaded(LinesFiles(lines), t, 1)
    \/ \E lines \in TaxPassLines, t \in 0..MaxTarget :
           InitUploaded(LinesFiles(lines), 2, t)

SpecBalance == InitBalance /\ [][NextRun]_vars

(***************************************************************************)
(* Claims.                                                                 *)
(***************************************************************************)
Succeeded == run.pc = "done" /\ run.outcome = "success"

Rows == 1..Len(finalData)

\* v[k] is the largest entry of v and no earlier entry equals it
FirstLargest(v, k) ==
    /\ \A i \in 1..Len(v) : RLe(v[i], v[k])
    /\ \A i \in 1..(k - 1) : RLt(v[i], v[k])

\* floor(amount * target / total) of every row of fd
ScaledFloor(fd, field, target, total) ==
    [i \in 1..Len(fd) |-> RFloor(RMul(fd[i][field], RDiv(R(target), total)))]

\* C1: when the total sales amount after redistribution is positive, the
\* balanced sales amounts are floor(amount * ratio), except that the first
\* row with the largest floored amount also takes the whole remainder, and
\* their sum is the sales target exactly.
C1_SalesTargetHit ==
    (Succeeded /\ RLt(Zero, totalSales(redistributed))) =>
        LET fl == ScaledFloor(redistributed, "total", run.targetSales,
                              totalSales(redistributed))
            diff == RSub(R(run.targetSales), RSum(fl))
        IN  /\ RSum([i \in Rows |-> finalData[i].salesFinal]) = R(run.targetSales)
            /\ \A i \in Rows :
                   finalData[i].salesFinal =
                       IF FirstLargest(fl, i) THEN RAdd(fl[i], diff) ELSE fl[i]

\* a run whose floored amounts fall short of the target and tie for the largest
C1_Witness ==
    /\ Succeeded
    /\ RLt(Zero, totalSales(redistributed))
    /\ LET fl == ScaledFloor(redistributed, "total", run.targetSales,
                             totalSales(redistributed))
       IN  /\ RSum(fl) # R(run.targetSales)
           /\ \E i, j \in Rows : i < j /\ fl[i] = fl[j] /\ FirstLargest(fl, i)
           /\ \E i \in Rows : redistributed[i].total[2] # 1

\* the rows of the report that carry a positive tax rate
Taxable == {i \in Rows : IsTaxable(finalData[i])}

\* C2: with a positive total sales amount and at least one taxable row, the
\* balanced tax amounts of the taxable rows sum to the tax target exactly,
\* and no zero-rate row takes the remainder.
C2_TaxTargetHit ==
    (Succeeded /\ RLt(Zero, totalSales(redistributed)) /\ Taxable # {}) =>
        /\ RSum([i \in Rows |-> IF i \in Taxable THEN finalData[i].taxFinal ELSE Zero])
               = R(run.targetTax)
        /\ \A i \in Rows \ Taxable :
               finalData[i].taxFinal = flooredTax(redistributed, run.targetTax)[i]

\* C3: every zero-rate row of a report has a balanced tax amount of 0.
C3_ZeroRateZeroTax ==
    Succeeded => \A i \in Rows \ Taxable : finalData[i].taxFinal = Zero

(***************************************************************************)
(* Claims about the redistribution.                                        *)
(***************************************************************************)
Fields == {"qty", "total", "tax"}

Brackets == {merged[i].tax_pct : i \in 1..Len(merged)}
InBracket(g) == {i \in 1..Len(merged) : merged[i].tax_pct = g}
Donors(g) == {i \in InBracket(g) : RLt(merged[i].ending, Zero)}
Recipients(g) ==
    {i \in InBracket(g) : RLt(Zero, merged[i].ending) /\ RLt(Zero, merged[i].total)}

\* the sum of fd[i][field] over the rows i of S
SumOver(fd, field, S) ==
    RSum([i \in 1..Len(fd) |-> IF i \in S THEN fd[i][field] ELSE Zero])

\* what row i lost (donor) or gained (recipient) in the redistribution
Lost(i, field) == RSub(merged[i][field], redistributed[i][field])
Gained(i, field) == RSub(redistributed[i][field], merged[i][field])

SumLost(S, field) == RSum([i \in 1..Len(merged) |-> IF i \in S THEN Lost(i, field) ELSE Zero])
SumGained(S, field) ==
    RSum([i \in 1..Len(merged) |-> IF i \in S THEN Gained(i, field) ELSE Zero])

\* the bracket holds at least as much positive ending balance as negative
Covered(g) ==
    RLe(RSum([i \in 1..Len(merged) |->
                 IF i \in InBracket(g) /\ RLt(merged[i].ending, Zero)
                 THEN RAbs(merged[i].ending) ELSE Zero]),
        RSum([i \in 1..Len(merged) |->
                 IF i \in InBracket(g) /\ RLt(Zero, merged[i].ending)
                 THEN merged[i].ending ELSE Zero]))

C5_NoNegativeEnding ==
    Succeeded =>
        \A g \in Brackets :
            (Recipients(g) # {} /\ Covered(g)) =>
                \A i \in InBracket(g) : RLe(Zero, finalData[i].endingFinal)

\* C6 as stated: in a covered bracket no donor's adjusted quantity, amount or
\* tax is below zero.
C6_DonorNonNegative ==
    Succeeded =>
        \A g \in Brackets :
            Covered(g) =>
                \A i \in Donors(g) : \A f \in Fields : RLe(Zero, redistributed[i][f])

\* C6 as amended: in a covered bracket, a donor whose sold quantity, amount
\* and tax were not negative before the redistribution has none of them
\* below zero after it.
C6_DonorNonNegativeAmended ==
    Succeeded =>
        \A g \in Brackets :
            Covered(g) =>
                \A i \in Donors(g) :
                    (\A f \in Fields : RLe(Zero, merged[i][f])) =>
                        \A f \in Fields : RLe(Zero, redistributed[i][f])

\* a donor whose deficit exceeds what it sold gives up all of it
C6_Witness ==
    /\ Succeeded
    /\ \E g \in Brackets :
           /\ Covered(g)
           /\ Recipients(g) # {}
           /\ \E i \in Donors(g) :
                  /\ RLt(Zero, merged[i].qty)
                  /\ RLt(merged[i].qty, RAbs(merged[i].ending))
                  /\ RLt(Zero, merged[i].total)
                  /\ redistributed[i].qty = Zero
                  /\ redistributed[i].total = Zero

\* min(1.0, |endingBalance| / max(quantity, 1))
RatioMaxGuard(r) == RMin(One, RDiv(RAbs(r.ending), RMax(r.qty, One)))
\* min(1.0, |endingBalance| / quantity), with 1 for a quantity of 0
RatioZeroGuard(r) ==
    RMin(One, RDiv(RAbs(r.ending), IF r.qty = Zero THEN One ELSE r.qty))

BracketRows(fd, g) ==
    LET idx == FilterIdx([i \in 1..Len(fd) |-> fd[i].tax_pct = g], 1)
    IN  [k \in 1..Len(idx) |-> fd[idx[k]]]

\* row i has the same quantity, amount and tax after the redistribution
Untouched(i) == \A f \in Fields : redistributed[i][f] = merged[i][f]

\* the row is neither donor nor recipient: its ending balance is 0, or it is
\* positive with a sales amount of 0 or less
Bystander(i) ==
    \/ merged[i].ending = Zero
    \/ RLt(Zero, merged[i].ending) /\ RLe(merged[i].total, Zero)

InventoryFields == {"q_open", "q_purch", "q_ret", "available"}

\* C11: the redistribution changes quantity, amount and tax only on the
\* donors and recipients of a bracket that has both.  Every row of a bracket
\* without a donor or without a recipient, and every row that is neither
\* donor nor recipient, keeps its quantity, amount and tax; no value moves
\* between brackets (each bracket keeps its three sums, and its rows end as
\* they would were the bracket redistributed alone); and opening, purchased,
\* returned and available are the same after the redistribution, and in the
\* report, as after the merge.
C11_FrameEffect ==
    Succeeded =>
        /\ Len(redistributed) = Len(merged)
        /\ \A g \in Brackets :
               /\ (Donors(g) = {} \/ Recipients(g) = {}) =>
                      \A i \in InBracket(g) : Untouched(i)
               /\ \A i \in InBracket(g) :
                      (Bystander(i) \/ i \notin Donors(g) \cup Recipients(g)) =>
                          Untouched(i)
               /\ \A f \in Fields :
                      SumOver(merged, f, InBracket(g)) = SumOver(redistributed, f, InBracket(g))
               /\ BracketRows(redistributed, g) = Redistribute(BracketRows(merged, g))
        /\ \A i \in 1..Len(merged) :
               /\ redistributed[i].tax_pct = merged[i].tax_pct
               /\ \A f \in InventoryFields :
                      /\ redistributed[i][f] = merged[i][f]
                      /\ finalData[i][f] = merged[i][f]

\* one run with: a bracket where a donor gives to a recipient beside a row of
\* ending balance 0 that has sales; a bracket with a donor that has sales and
\* a row in stock without sales, so no recipient; and a bracket with a
\* would-be recipient and no donor
C11_Witness ==
    /\ Succeeded
    /\ \E g \in Brackets :
           /\ \E i \in Donors(g) : RLt(Zero, Lost(i, "qty")) /\ RLt(Zero, Lost(i, "total"))
           /\ \E i \in Recipients(g) : RLt(Zero, Gained(i, "total"))
           /\ \E i \in InBracket(g) : merged[i].ending = Zero /\ RLt(Zero, merged[i].total)
    /\ \E g \in Brackets :
           /\ Recipients(g) = {}
           /\ \E i \in Donors(g) : RLt(Zero, merged[i].qty) /\ RLt(Zero, merged[i].total)
           /\ \E i \in InBracket(g) : RLt(Zero, merged[i].ending) /\ merged[i].total = Zero
    /\ \E g \in Brackets :
           /\ Donors(g) = {}
           /\ \E i \in Recipients(g) : RLt(Zero, merged[i].tax)

(***************************************************************************)
(* Claims about the merge, the schema and the run as a whole.              *)
(***************************************************************************)
\* the non-empty product codes a ledger holds
CodesIn(f) ==
    {Cell(f.data[i], COL_S_CODE) : i \in 1..Len(f.data)} \ {"", Undefined}

InventoryCodes == CodesIn(files["open"]) \cup CodesIn(files["purch"]) \cup CodesIn(files["ret"])
SoldCodes == CodesIn(files["sales"])

\* C7: the report has exactly one row for every non-empty code of the four
\* ledgers and no other row; a code that was not sold is merged with zero
\* sold quantity, amount and tax and reported with quantity 0, and a code
\* seen only in the sales ledger is merged with available = 0.
C7_CodeUnion ==
    Succeeded =>
        LET report == reportData(finalData)
        IN  /\ {report[i].code : i \in Rows} = InventoryCodes \cup SoldCodes
            /\ \A i, j \in Rows : report[i].code = report[j].code => i = j
            /\ \A i \in Rows :
                   /\ merged[i].code = report[i].code
                   /\ report[i].code \notin SoldCodes =>
                          /\ \A f \in Fields : merged[i][f] = Zero
                          /\ merged[i].tax_pct = Zero
                          /\ report[i].qty = Zero
                   /\ report[i].code \notin InventoryCodes =>
                          /\ merged[i].available = Zero
                          /\ report[i].q_open = Zero
                          /\ report[i].q_purch = Zero
                          /\ report[i].q_ret = Zero

\* a report with a code only sold, a code only in stock, a code in two
\* inventory ledgers and a code both in stock and sold over several rows
C7_Witness ==
    /\ Succeeded
    /\ SoldCodes \ InventoryCodes # {}
    /\ InventoryCodes \ SoldCodes # {}
    /\ CodesIn(files["open"]) \cap CodesIn(files["purch"]) # {}
    /\ \E i, j \in 1..Len(files["sales"].data) :
           /\ i < j
           /\ Cell(files["sales"].data[i], COL_S_CODE) = Cell(files["sales"].data[j], COL_S_CODE)
           /\ Cell(files["sales"].data[i], COL_S_CODE) \in InventoryCodes
    /\ \E i \in 1..Len(files["open"].data) : Cell(files["open"].data[i], COL_S_CODE) = ""

RequiredSalesColumns ==
    {COL_S_CODE, COL_S_QTY, COL_S_TAX_PCT, COL_S_TOTAL, COL_S_TAX_AMT}

LacksSalesColumn == \E c \in RequiredSalesColumns : ~SeqHas(files["sales"].headers, c)
NarrowInventory == \E t \in {"open", "purch", "ret"} : Len(files[t].headers) < 2

\* C8: a run over a sales ledger without one of its required columns, or
\* over an inventory ledger of fewer than two columns, ends in failure and
\* produces no report.
C8_SchemaError ==
    (run.pc = "done" /\ (LacksSalesColumn \/ NarrowInventory)) =>
        /\ run.outcome = "failure"
        /\ ~result[1].success
        /\ finalData = <<>>

\* the report of a successful run is complete: a row for every merged row,
\* each with its balanced amounts and final ending balance
CompleteReport ==
    /\ Len(finalData) = Len(merged)
    /\ \A i \in Rows : {"salesFinal", "taxFinal", "endingFinal"} \subseteq DOMAIN finalData[i]

C9_State ==
    /\ loading <=> run.pc = "parsing"
    /\ run.pc = "done" =>
           /\ Len(result) = 1
           /\ run.outcome \in {"success", "failure"}
           /\ run.outcome = "success" =>
                  /\ result[1].success
                  /\ run.parsed = FileTypes
                  /\ run.url # NoUrl
                  /\ downloadUrl = run.url
                  /\ CompleteReport
           /\ run.outcome = "failure" =>
                  /\ ~result[1].success
                  /\ result[1].message \in {MsgMissing, MsgSystem}
                  /\ run.url = NoUrl
                  /\ finalData = <<>>
                  /\ result[1].message = MsgMissing => (run.parsed = {} /\ merged = <<>>)

C9_Step ==
    \* a request with a ledger missing fails at once, nothing parsed
    /\ (~AllUploaded(files) /\ run' # run) =>
           /\ run'.pc = "done"
           /\ run'.outcome = "failure"
           /\ run'.parsed = {}
           /\ result' = <<[success |-> FALSE, message |-> MsgMissing]>>
           /\ ~loading'
    \* a run that is parsing ends in one step, with no second parse
    /\ (run.pc = "parsing" /\ run' # run) => run'.pc = "done"
    \* a run that fails creates no download URL and leaves the old one
    /\ (run' # run /\ run'.outcome = "failure") =>
           /\ downloadUrl' = downloadUrl
           /\ nextUrl' = nextUrl
    \* a run that succeeds installs a URL no earlier run had
    /\ (run' # run /\ run'.outcome = "success") =>
           /\ downloadUrl' # downloadUrl
           /\ downloadUrl' = nextUrl

\* C9: every run ends either in success, with the result and the download
\* URL of a complete report set together after all four parses, or in
\* failure with a message and no report of its own; a request with a ledger
\* missing fails before anything is parsed, a rejected parse ends the run at
\* once, and loading is false whenever no run is in progress.
C9_NoPartialSuccess == []C9_State /\ [][C9_Step]_vars

\* a run that failed after an earlier run had produced a report
C9_Witness ==
    /\ run.pc = "done"
    /\ run.outcome = "failure"
    /\ result[1].message = MsgSystem
    /\ downloadUrl # NoUrl
    /\ ~loading

====
